---------------------------- MODULE Spec2Model ----------------------------
(***************************************************************************)
(* Model of the pharmacy voice bot (src/main.py): the SQLite session store *)
(* (tables conversations and call_logs) and the two Twilio webhooks        *)
(* /incoming-call and /process-recording.                                  *)
(*                                                                         *)
(* Text.  A Python str is a sequence of tokens (chunks of characters); the *)
(* string is the concatenation of its tokens, blanks are explicit " "      *)
(* tokens.  Substring tests, startswith, strip, replace and slicing are    *)
(* computed on the token sequence.  Typographic apostrophes and dashes of  *)
(* the prompts are written in ASCII.                                       *)
(*                                                                         *)
(* Optional values (None / a value) are records [some, val].               *)
(***************************************************************************)
EXTENDS Naturals, Integers, Sequences, FiniteSets, TLC

VARIABLES
    conversations,  \* table conversations: call_sid -> [exists, messages, reprompt_count]
    call_logs,      \* table call_logs: sequence of rows, in insertion (id) order
    request,        \* the HTTP request handled by the last step
    response,       \* the HTTP response returned by the last step
    locked,         \* store operation -> how many of its next attempts SQLite rejects
    workers         \* worker process -> the recording callback it is handling

vars == <<conversations, call_logs, request, response, locked, workers>>

---------------------------------------------------------------------------
(* Optional values *)

None == [some |-> FALSE, val |-> <<>>]

\* None where the value would be a plain string (CallSid, Confidence)
NoneStr == [some |-> FALSE, val |-> ""]

Some(v) == [some |-> TRUE, val |-> v]

---------------------------------------------------------------------------
(* Text operations *)

Whitespace == {" "}

RECURSIVE LStrip(_, _)
LStrip(t, chars) ==
    IF t = <<>> THEN t
    ELSE IF Head(t) \in chars THEN LStrip(Tail(t), chars) ELSE t

RECURSIVE RStrip(_, _)
RStrip(t, chars) ==
    IF t = <<>> THEN t
    ELSE IF t[Len(t)] \in chars THEN RStrip(SubSeq(t, 1, Len(t) - 1), chars) ELSE t

\* str.strip(chars)
Strip(t, chars) == RStrip(LStrip(t, chars), chars)

\* str.lower() on one token
LowerTok(tok) ==
    CASE tok = "I"         -> "i"
      [] tok = "Actually"  -> "actually"
      [] tok = "EMERGENCY" -> "emergency"
      [] tok = "Jane"      -> "jane"
      [] tok = "Doe"       -> "doe"
      [] tok = "Monday"    -> "monday"
      [] tok = "Moderna"   -> "moderna"
      [] tok = "K1A"       -> "k1a"
      [] tok = "0B1"       -> "0b1"
      [] tok = "REFILL"    -> "refill"
      [] OTHER             -> tok

\* str.lower()
Lower(t) == [i \in 1..Len(t) |-> LowerTok(t[i])]

\* str.startswith(prefix)
StartsWith(t, prefix) ==
    /\ Len(t) >= Len(prefix)
    /\ SubSeq(t, 1, Len(prefix)) = prefix

\* kw in t   (substring test)
Contains(t, kw) ==
    \E i \in 1..(Len(t) + 1) :
        /\ i + Len(kw) - 1 <= Len(t)
        /\ SubSeq(t, i, i + Len(kw) - 1) = kw

\* t.replace(" ", "")
RemoveSpaces(t) == SelectSeq(t, LAMBDA tok : tok # " ")

\* t[n:]
DropPrefix(t, n) == SubSeq(t, n + 1, Len(t))

---------------------------------------------------------------------------
(* Prompts and replies *)

SilenceReprompt == <<"I'm sorry, ", "I didn't hear anything. Could you please repeat?">>

SilenceGoodbye == <<"We did not receive any input. Goodbye.">>

LowConfidenceReprompt == <<"I'm sorry, ", "I didn't catch that clearly. Could you please repeat?">>

GreetingText == <<"Hello, thank you for calling the pharmacy. How can I help you today?">>

VaccinePrompt == <<"Which vaccine would you like", "? Please say the vaccine name.">>

NamePrompt == <<"Got it", ". And can I have your full name", ", please?">>

DatePrompt ==
    <<"Thank you. ", "Finally, on which date",
      " would you like to book your appointment? Please say the date.">>

BookedReply(vt, pn, desired_date) ==
    <<"Thank you. ", "Your ">> \o vt \o <<" appointment for ">> \o pn
        \o <<" on ">> \o desired_date \o <<" is booked. Goodbye.">>

RefillReply == <<"Certainly. What is your prescription number?">>

HoursReply ==
    <<"Our pharmacy is open Monday to Friday, 9 AM to 6 PM, ",
      "and Saturday 10 AM to 4 PM. Anything else I can help you with?">>

PostalPrompt == <<"Sure-", "what's your postal code", " (Canada)?">>

GptApology == <<"I'm sorry, ", "I'm having trouble right now. Please try again later.">>

NotSureCorrection ==
    <<"I'm sorry, ", "I'm not sure what you wish to correct. Could you please restate?">>

CorrectedVaccineReply(corrected) ==
    <<"Sure-", "so you want the ">> \o corrected
        \o <<" vaccine. May I have your full name, please?">>

CorrectedNameReply(corrected) ==
    <<"Thank you. ", "Noted your name as ">> \o corrected
        \o <<". On which date would you like to book your appointment?">>

CorrectedDateReply(corrected) ==
    <<"Alright, setting your appointment date to ">> \o corrected
        \o <<". ", "Your booking is confirmed-thank you. Goodbye.">>

CorrectedPostalReply(corrected) ==
    <<"Got it", "-your postal code is ">> \o corrected
        \o <<". Looking up nearest pharmacies...">>

GeocodeFailedReply ==
    <<"I'm sorry, ", "I couldn't look up that postal code. ",
      "Could you please repeat your postal code?">>

PlacesFailedReply ==
    <<"I'm sorry, ", "I couldn't find nearby pharmacies for that postal code. ",
      "Could you please provide a different postal code?">>

NearestListReply(nearest_list) ==
    <<"Here are the three closest pharmacies to you: ">> \o nearest_list
        \o <<". Is there anything else I can help you with?">>

\* the prefixes process_recording matches against the previous prompt
PostalPrefix == <<"Sure-", "what's your postal code">>

VaccinePrefix == <<"Which vaccine would you like">>

NamePrefix == <<"Got it", ". And can I have your full name">>

DatePrefix == <<"Thank you. ", "Finally, on which date">>

DefaultVaccine == <<"your vaccine">>

DefaultPatient == <<"the patient">>

---------------------------------------------------------------------------
(* Turn messages.  A system message holds json.dumps({slot: content}).     *)

AssistantMsg(text) == [role |-> "assistant", slot |-> "", content |-> text]

SystemMsg(key, value) == [role |-> "system", slot |-> key, content |-> value]

---------------------------------------------------------------------------
(* Session store: tables conversations and call_logs *)

CallSids == {"CA1"}

StoreOps ==
    {"get_history", "save_history", "get_reprompt_count",
     "increment_reprompt_count", "reset_reprompt_count", "log_call_turn"}

\* no statement is rejected
NoFault == [op \in StoreOps |-> 0]

retries == 3

\* one call of a wrapped function (_get, _save, _inc, _reset, _log): when
\* SQLite rejects the statement with "database is locked", the function's
\* own "except Exception" prints the error and the function returns
InnerCall(rejected) == IF rejected THEN "swallowed" ELSE "done"

\* retry_sqlite: call again, up to retries times, while the call raises the
\* lock error; then call once more
RECURSIVE retry_sqlite(_, _)
retry_sqlite(rejections, attempt) ==
    LET result == InnerCall(attempt <= rejections) IN
    IF result = "raised" /\ attempt <= retries
    THEN retry_sqlite(rejections, attempt + 1)
    ELSE result

\* the statement of a wrapped store operation is executed
Executed(op) == retry_sqlite(locked[op], 1) = "done"

NoRow == [exists |-> FALSE, messages |-> <<>>, reprompt_count |-> 0]

\* get_history, the value returned: the stored messages, [] when there is no row
get_history(db, call_sid) ==
    IF Executed("get_history") /\ db[call_sid].exists
    THEN db[call_sid].messages
    ELSE <<>>

\* a load that writes the empty record whether or not one exists
get_history_insert_Replace(db, call_sid) ==
    IF ~Executed("get_history") THEN db
    ELSE [db EXCEPT ![call_sid] =
            [exists |-> TRUE, messages |-> <<>>, reprompt_count |-> 0]]

\* get_history, the effect on the table: a missing row is inserted
get_history_insert(db, call_sid) ==
    IF ~Executed("get_history") \/ db[call_sid].exists THEN db
    ELSE [db EXCEPT ![call_sid] =
            [exists |-> TRUE, messages |-> <<>>, reprompt_count |-> 0]]

\* UPDATE conversations SET messages = ? WHERE call_sid = ?
save_history(db, call_sid, messages) ==
    IF Executed("save_history") /\ db[call_sid].exists
    THEN [db EXCEPT ![call_sid].messages = messages]
    ELSE db

\* a read that never sees the stored count
get_reprompt_count_Zero(db, call_sid) == 0

\* a read whose failure counts as the cap
get_reprompt_count_FailsHigh(db, call_sid) ==
    IF locked["get_reprompt_count"] # 0 THEN 3
    ELSE IF db[call_sid].exists THEN db[call_sid].reprompt_count
    ELSE 0

\* not wrapped in retry_sqlite: any error gives 0
get_reprompt_count(db, call_sid) ==
    IF locked["get_reprompt_count"] = 0 /\ db[call_sid].exists
    THEN db[call_sid].reprompt_count
    ELSE 0

\* an update that writes 1 instead of adding 1
increment_reprompt_count_SetOne(db, call_sid) ==
    IF db[call_sid].exists
    THEN [db EXCEPT ![call_sid].reprompt_count = 1]
    ELSE db

\* UPDATE conversations SET reprompt_count = reprompt_count + 1 WHERE call_sid = ?
increment_reprompt_count(db, call_sid) ==
    IF Executed("increment_reprompt_count") /\ db[call_sid].exists
    THEN [db EXCEPT ![call_sid].reprompt_count = @ + 1]
    ELSE db

\* a reset that leaves the counter alone
reset_reprompt_count_Noop(db, call_sid) == db

\* UPDATE conversations SET reprompt_count = 0 WHERE call_sid = ?
reset_reprompt_count(db, call_sid) ==
    IF Executed("reset_reprompt_count") /\ db[call_sid].exists
    THEN [db EXCEPT ![call_sid].reprompt_count = 0]
    ELSE db

\* INSERT INTO call_logs(...)
log_call_turn(logs, call_sid, turn_number, user_text, assistant_reply, error_message) ==
    IF ~Executed("log_call_turn") THEN logs
    ELSE
    Append(logs, [call_sid        |-> call_sid,
                  turn_number     |-> turn_number,
                  user_text       |-> user_text,
                  assistant_reply |-> assistant_reply,
                  error_message   |-> error_message])

---------------------------------------------------------------------------
(* Confidence: the form field is a string; float() gives hundredths here *)

FloatStrings == {"0.3", "0.49", "0.5", "0.9", "0.99"}

\* float(s) for the strings that parse
ParseFloat(s) ==
    CASE s = "0.3"  -> 30
      [] s = "0.49" -> 49
      [] s = "0.5"  -> 50
      [] s = "0.9"  -> 90
      [] s = "0.99" -> 99

\* str(float) inside the f-string of the low-confidence label
FloatRepr(x) ==
    CASE x = 0  -> "0.0"
      [] x = 30 -> "0.3"
      [] x = 49 -> "0.49"
      [] x = 50 -> "0.5"
      [] x = 90 -> "0.9"
      [] x = 99 -> "0.99"

\* a confidence field that is missing or not a number counts as 1.0
ParseConfidence_DefaultOne(confidence_str) ==
    IF ~confidence_str.some THEN 100
    ELSE IF confidence_str.val \in FloatStrings THEN ParseFloat(confidence_str.val)
    ELSE 100

\* float(confidence_str) if confidence_str is not None else 0.0; ValueError -> 0.0
ParseConfidence(confidence_str) ==
    IF ~confidence_str.some THEN 0
    ELSE IF confidence_str.val \in FloatStrings THEN ParseFloat(confidence_str.val)
    ELSE 0

ConfidenceThreshold == 50

MaxReprompts == 3

---------------------------------------------------------------------------
(* Classification *)

\* not user_speech or user_speech.strip() == ""
IsSilence(user_speech) ==
    \/ ~user_speech.some
    \/ user_speech.val = <<>>
    \/ Strip(user_speech.val, Whitespace) = <<>>

IntentVaccineKeywords ==
    {<<"vaccine">>, <<"shot">>, <<"vaccination">>,
     <<"schedule", " ", "a", " ", "vaccine">>}

IntentRefillKeywords == {<<"refill">>, <<"renew">>, <<"prescription">>}

IntentHoursKeywords == {<<"hour">>, <<"open">>, <<"close">>, <<"time">>}

IntentNearestKeywords ==
    {<<"nearest", " ", "pharmacy">>, <<"closest", " ", "pharmacy">>,
     <<"find", " ", "pharmacy">>, <<"pharmacy", " ", "near", " ", "me">>}

\* a matcher that looks for REFILL before VACCINE
classify_intent_RefillFirst(text) ==
    LET lower == Lower(text) IN
    IF \E kw \in IntentRefillKeywords : Contains(lower, kw) THEN "REFILL"
    ELSE IF \E kw \in IntentVaccineKeywords : Contains(lower, kw) THEN "VACCINE"
    ELSE IF \E kw \in IntentHoursKeywords : Contains(lower, kw) THEN "HOURS"
    ELSE IF \E kw \in IntentNearestKeywords : Contains(lower, kw) THEN "NEAREST"
    ELSE "GENERAL"

classify_intent(text) ==
    LET lower == Lower(text) IN
    IF \E kw \in IntentVaccineKeywords : Contains(lower, kw) THEN "VACCINE"
    ELSE IF \E kw \in IntentRefillKeywords : Contains(lower, kw) THEN "REFILL"
    ELSE IF \E kw \in IntentHoursKeywords : Contains(lower, kw) THEN "HOURS"
    ELSE IF \E kw \in IntentNearestKeywords : Contains(lower, kw) THEN "NEAREST"
    ELSE "GENERAL"

correction_keywords == << <<"actually">>, <<"i", " ", "mean">>, <<"sorry">>, <<"change">> >>

\* any(lower.startswith(k) for k in correction_keywords)
IsCorrection(user_text) ==
    \E i \in 1..Len(correction_keywords) :
        StartsWith(Lower(user_text), correction_keywords[i])

\* the loop that strips the first matching keyword and then " ,:"
CorrectedText(user_text) ==
    LET lower == Lower(user_text)
        i == CHOOSE j \in 1..Len(correction_keywords) :
                /\ StartsWith(lower, correction_keywords[j])
                /\ \A h \in 1..(j - 1) : ~StartsWith(lower, correction_keywords[h])
    IN Strip(DropPrefix(user_text, Len(correction_keywords[i])), {" ", ",", ":"})

---------------------------------------------------------------------------
(* History helpers of process_recording *)

\* a scan that stops at the oldest system message
LastSlotIdx_Oldest(history) ==
    LET idxs == {i \in 1..Len(history) : history[i].role = "system"}
    IN IF idxs = {} THEN 0 ELSE CHOOSE i \in idxs : \A j \in idxs : i <= j

\* the backward scan for the most recent system message; 0 when there is none
LastSlotIdx(history) ==
    LET idxs == {i \in 1..Len(history) : history[i].role = "system"}
    IN IF idxs = {} THEN 0 ELSE CHOOSE i \in idxs : \A j \in idxs : j <= i

\* history[-2]["content"] if len(history) >= 2 and history[-2] is an assistant message
last_assistant(history) ==
    IF Len(history) >= 2 /\ history[Len(history) - 1].role = "assistant"
    THEN history[Len(history) - 1].content
    ELSE <<>>

\* an update that keeps the value a key already has
DictUpdate_KeepFirst(d, key, value) ==
    [k \in (DOMAIN d) \cup {key} |-> IF k \in DOMAIN d THEN d[k] ELSE value]

\* dict.update with a single-key dict
DictUpdate(d, key, value) ==
    [k \in (DOMAIN d) \cup {key} |-> IF k = key THEN value ELSE d[k]]

\* dict.get(key, default)
DictGet(d, key, default) == IF key \in DOMAIN d THEN d[key] ELSE default

\* slot_data after the loop over the first n messages
RECURSIVE SlotDataUpTo(_, _)
SlotDataUpTo(history, n) ==
    IF n = 0 THEN <<>>
    ELSE LET d == SlotDataUpTo(history, n - 1) IN
         IF history[n].role = "system"
         THEN DictUpdate(d, history[n].slot, history[n].content)
         ELSE d

slot_data(history) == SlotDataUpTo(history, Len(history))

\* len(history)//2 + 1
TurnNumber(history) == (Len(history) \div 2) + 1

---------------------------------------------------------------------------
(* HTTP exchange *)

Http400 == [status |-> 400, say |-> <<>>, hangup |-> FALSE]

\* TwiML that speaks (or plays) text inside <Gather>: the call continues
GatherResponse(text) == [status |-> 200, say |-> text, hangup |-> FALSE]

\* TwiML that speaks (or plays) text and then <Hangup/>
HangupResponse(text) == [status |-> 200, say |-> text, hangup |-> TRUE]

\* the outcome of one turn: the tables after it and the response
Outcome(db, logs, resp) == [db |-> db, logs |-> logs, response |-> resp]

---------------------------------------------------------------------------
(* process_recording, branch by branch *)

\* the silence branch with the comparison off by one (<= instead of <)
SilenceTurn_OffByOne(db, logs, call_sid, reprompts) ==
    IF reprompts <= MaxReprompts
    THEN Outcome(increment_reprompt_count(db, call_sid),
                 log_call_turn(logs, call_sid, 0, None, None,
                               Some(<<"Silence reprompt">>)),
                 GatherResponse(SilenceReprompt))
    ELSE Outcome(db,
                 log_call_turn(logs, call_sid, 0, None, None,
                               Some(<<"Silence hangup after 3 reprompts">>)),
                 HangupResponse(SilenceGoodbye))

\* a silent turn that writes the count it loaded, plus 1
SilenceTurn_WritesLoaded(db, logs, call_sid, reprompts) ==
    IF reprompts < MaxReprompts
    THEN Outcome([db EXCEPT ![call_sid].reprompt_count = reprompts + 1],
                 log_call_turn(logs, call_sid, 0, None, None,
                               Some(<<"Silence reprompt">>)),
                 GatherResponse(SilenceReprompt))
    ELSE Outcome(db,
                 log_call_turn(logs, call_sid, 0, None, None,
                               Some(<<"Silence hangup after 3 reprompts">>)),
                 HangupResponse(SilenceGoodbye))

\* A) silence
SilenceTurn(db, logs, call_sid, reprompts) ==
    IF reprompts < MaxReprompts
    THEN Outcome(increment_reprompt_count(db, call_sid),
                 log_call_turn(logs, call_sid, 0, None, None,
                               Some(<<"Silence reprompt">>)),
                 GatherResponse(SilenceReprompt))
    ELSE Outcome(db,
                 log_call_turn(logs, call_sid, 0, None, None,
                               Some(<<"Silence hangup after 3 reprompts">>)),
                 HangupResponse(SilenceGoodbye))

\* a low-confidence turn that counts as a silent one
LowConfidenceTurn_Counts(db, logs, call_sid, user_speech, confidence) ==
    Outcome(increment_reprompt_count(db, call_sid),
            log_call_turn(logs, call_sid, 0, user_speech, None,
                          Some(<<"Low confidence (", FloatRepr(confidence), ")">>)),
            GatherResponse(LowConfidenceReprompt))

\* B) low confidence
LowConfidenceTurn(db, logs, call_sid, user_speech, confidence) ==
    Outcome(db,
            log_call_turn(logs, call_sid, 0, user_speech, None,
                          Some(<<"Low confidence (", FloatRepr(confidence), ")">>)),
            GatherResponse(LowConfidenceReprompt))

\* H) append the reply, save, log, gather again
FinishTurn(db, logs, call_sid, history, user_text, assistant_reply, error_message) ==
    LET h == Append(history, AssistantMsg(assistant_reply)) IN
    Outcome(save_history(db, call_sid, h),
            log_call_turn(logs, call_sid, TurnNumber(h), Some(user_text),
                          Some(assistant_reply), error_message),
            GatherResponse(assistant_reply))

\* the two booking paths: log first, then append the reply, save and hang up
BookingTurn(db, logs, call_sid, history, user_text, assistant_reply, label) ==
    LET h == Append(history, AssistantMsg(assistant_reply)) IN
    Outcome(save_history(db, call_sid, h),
            log_call_turn(logs, call_sid, TurnNumber(history), Some(user_text),
                          Some(assistant_reply), Some(label)),
            HangupResponse(assistant_reply))

\* C) the utterance begins with a correction keyword
CorrectionTurn(db, logs, call_sid, history, user_text) ==
    LET corrected == CorrectedText(user_text)
        last_slot_idx == LastSlotIdx(history)
    IN
    IF last_slot_idx # 0 /\ history[last_slot_idx].slot # ""
    THEN LET last_slot_key == history[last_slot_idx].slot
             h == [history EXCEPT ![last_slot_idx] = SystemMsg(last_slot_key, corrected)]
         IN
         IF last_slot_key = "vaccine_type"
         THEN FinishTurn(db, logs, call_sid, h, user_text,
                         CorrectedVaccineReply(corrected), Some(<<"Slot correction">>))
         ELSE IF last_slot_key = "patient_name"
         THEN FinishTurn(db, logs, call_sid, h, user_text,
                         CorrectedNameReply(corrected), Some(<<"Slot correction">>))
         ELSE IF last_slot_key = "desired_date"
         THEN BookingTurn(db, logs, call_sid, h, corrected,
                          CorrectedDateReply(corrected),
                          <<"VACCINE_BOOKED (correction)">>)
         ELSE IF last_slot_key = "nearest_postal"
         THEN FinishTurn(db, logs, call_sid, h, corrected,
                         CorrectedPostalReply(corrected), Some(<<"Slot correction">>))
         ELSE FinishTurn(db, logs, call_sid, h, user_text,
                         NotSureCorrection, Some(<<"Slot correction">>))
    ELSE FinishTurn(db, logs, call_sid, history, user_text,
                    NotSureCorrection, Some(<<"Slot correction">>))

\* D) the previous prompt asked for the postal code
PostalTurn(db, logs, call_sid, history, user_text, geo_ok, places) ==
    LET postal_code == RemoveSpaces(user_text)
        h == Append(history, SystemMsg("nearest_postal", postal_code))
    IN
    IF ~geo_ok
    THEN FinishTurn(db, logs, call_sid, h, postal_code,
                    GeocodeFailedReply, Some(<<"Geocode failed">>))
    ELSE IF ~places.some
    THEN FinishTurn(db, logs, call_sid, h, postal_code,
                    PlacesFailedReply, Some(<<"Places API failed">>))
    ELSE FinishTurn(db, logs, call_sid, h, postal_code,
                    NearestListReply(places.val), None)

\* F) the canned reply of a new intent; GENERAL goes to the completion
IntentReply(intent) ==
    CASE intent = "VACCINE" -> VaccinePrompt
      [] intent = "REFILL"  -> RefillReply
      [] intent = "HOURS"   -> HoursReply
      [] intent = "NEAREST" -> PostalPrompt

\* routing that does not log the cause of a completion failure
IntentTurn_CauseNotLogged(db, logs, call_sid, history, user_text, gpt) ==
    LET intent == classify_intent(user_text) IN
    IF intent # "GENERAL"
    THEN FinishTurn(db, logs, call_sid, history, user_text, IntentReply(intent), None)
    ELSE IF gpt.ok
    THEN FinishTurn(db, logs, call_sid, history, user_text,
                    Strip(gpt.text, Whitespace), None)
    ELSE FinishTurn(db, logs, call_sid, history, user_text, GptApology, None)

\* F, G) no flow matched: route by intent
IntentTurn(db, logs, call_sid, history, user_text, gpt) ==
    LET intent == classify_intent(user_text) IN
    IF intent # "GENERAL"
    THEN FinishTurn(db, logs, call_sid, history, user_text, IntentReply(intent), None)
    ELSE IF gpt.ok
    THEN FinishTurn(db, logs, call_sid, history, user_text,
                    Strip(gpt.text, Whitespace), None)
    ELSE FinishTurn(db,
                    log_call_turn(logs, call_sid, TurnNumber(history), Some(user_text),
                                  Some(GptApology), Some(<<"GPT error: ">> \o gpt.text)),
                    call_sid, history, user_text, GptApology, None)

\* E) the vaccine flow, keyed on the previous prompt
VaccineFlowTurn(db, logs, call_sid, history, user_text, gpt) ==
    LET prompt == last_assistant(history) IN
    IF StartsWith(prompt, VaccinePrefix)
    THEN FinishTurn(db, logs, call_sid,
                    Append(history, SystemMsg("vaccine_type", user_text)),
                    user_text, NamePrompt, None)
    ELSE IF StartsWith(prompt, NamePrefix)
    THEN FinishTurn(db, logs, call_sid,
                    Append(history, SystemMsg("patient_name", user_text)),
                    user_text, DatePrompt, None)
    ELSE IF StartsWith(prompt, DatePrefix)
    THEN LET slots == slot_data(history)
             vt == DictGet(slots, "vaccine_type", DefaultVaccine)
             pn == DictGet(slots, "patient_name", DefaultPatient)
         IN BookingTurn(db, logs, call_sid, history, user_text,
                        BookedReply(vt, pn, user_text), <<"VACCINE_BOOKED">>)
    ELSE IntentTurn(db, logs, call_sid, history, user_text, gpt)

\* C..H) a valid utterance: reset the reprompt counter, then dispatch
ValidTurn(db, logs, call_sid, history, user_speech, gpt, geo_ok, places) ==
    LET user_text == Strip(user_speech.val, Whitespace)
        db1 == reset_reprompt_count(db, call_sid)
    IN
    IF IsCorrection(user_text)
    THEN CorrectionTurn(db1, logs, call_sid, history, user_text)
    ELSE IF StartsWith(last_assistant(history), PostalPrefix)
    THEN PostalTurn(db1, logs, call_sid, history, user_text, geo_ok, places)
    ELSE VaccineFlowTurn(db1, logs, call_sid, history, user_text, gpt)

\* the turn of a request that carries a call identifier
\* lines 338-948: what a turn does with the history and the count it loaded
DispatchTurn(db, logs, call_sid, history, reprompts, user_speech, confidence_str, gpt, geo_ok, places) ==
    LET confidence == ParseConfidence(confidence_str) IN
    IF IsSilence(user_speech)
    THEN SilenceTurn(db, logs, call_sid, reprompts)
    ELSE IF confidence < ConfidenceThreshold
    THEN LowConfidenceTurn(db, logs, call_sid, user_speech, confidence)
    ELSE ValidTurn(db, logs, call_sid, history, user_speech, gpt, geo_ok, places)

RecordingTurn(db, logs, call_sid, user_speech, confidence_str, gpt, geo_ok, places) ==
    LET history == get_history(db, call_sid)
        db0 == get_history_insert(db, call_sid)
        reprompts == get_reprompt_count(db0, call_sid)
    IN DispatchTurn(db0, logs, call_sid, history, reprompts, user_speech,
                    confidence_str, gpt, geo_ok, places)

---------------------------------------------------------------------------
(* The webhooks *)

\* a webhook that files a callback without CallSid under the only call it knows
process_recording_GuessSid(CallSid, SpeechResult, Confidence, gpt, geo_ok, places) ==
    /\ UNCHANGED <<locked, workers>>
    /\ request' = [path |-> "/process-recording", CallSid |-> CallSid,
                   SpeechResult |-> SpeechResult, Confidence |-> Confidence]
    /\ LET call_sid == IF ~CallSid.some \/ CallSid.val = ""
                       THEN CHOOSE sid \in CallSids : TRUE
                       ELSE CallSid.val
           out == RecordingTurn(conversations, call_logs, call_sid,
                                SpeechResult, Confidence, gpt, geo_ok, places)
       IN /\ conversations' = out.db
          /\ call_logs' = out.logs
          /\ response' = out.response

\* POST /process-recording
process_recording(CallSid, SpeechResult, Confidence, gpt, geo_ok, places) ==
    /\ UNCHANGED <<locked, workers>>
    /\ request' = [path |-> "/process-recording", CallSid |-> CallSid,
                   SpeechResult |-> SpeechResult, Confidence |-> Confidence]
    /\ IF ~CallSid.some \/ CallSid.val = ""
       THEN /\ response' = Http400
            /\ UNCHANGED <<conversations, call_logs>>
       ELSE LET out == RecordingTurn(conversations, call_logs, CallSid.val,
                                     SpeechResult, Confidence, gpt, geo_ok, places)
            IN /\ conversations' = out.db
               /\ call_logs' = out.logs
               /\ response' = out.response

\* an inbound-call webhook that creates the session record
incoming_call_Creates(CallSid) ==
    /\ UNCHANGED <<locked, workers>>
    /\ request' = [path |-> "/incoming-call", CallSid |-> CallSid,
                   SpeechResult |-> None, Confidence |-> NoneStr]
    /\ IF ~CallSid.some \/ CallSid.val = ""
       THEN /\ response' = Http400
            /\ UNCHANGED <<conversations, call_logs>>
       ELSE /\ conversations' =
                  reset_reprompt_count(get_history_insert(conversations, CallSid.val),
                                       CallSid.val)
            /\ response' = GatherResponse(GreetingText)
            /\ UNCHANGED call_logs

\* POST /incoming-call
incoming_call(CallSid) ==
    /\ UNCHANGED <<locked, workers>>
    /\ request' = [path |-> "/incoming-call", CallSid |-> CallSid,
                   SpeechResult |-> None, Confidence |-> NoneStr]
    /\ IF ~CallSid.some \/ CallSid.val = ""
       THEN /\ response' = Http400
            /\ UNCHANGED <<conversations, call_logs>>
       ELSE /\ conversations' = reset_reprompt_count(conversations, CallSid.val)
            /\ response' = GatherResponse(GreetingText)
            /\ UNCHANGED call_logs

\* worker processes of the server, each handling one callback at a time
Workers == {"w1", "w2"}

NoCallback ==
    [busy |-> FALSE, CallSid |-> "", SpeechResult |-> None, Confidence |-> NoneStr,
     history |-> <<>>, reprompts |-> 0]

\* POST /process-recording in worker w, up to the two loads: the form
\* fields, get_history and get_reprompt_count
load_recording(w, CallSid, SpeechResult, Confidence) ==
    /\ ~workers[w].busy
    /\ LET history == get_history(conversations, CallSid)
           db0 == get_history_insert(conversations, CallSid)
       IN /\ conversations' = db0
          /\ workers' = [workers EXCEPT ![w] =
                [busy |-> TRUE, CallSid |-> CallSid,
                 SpeechResult |-> SpeechResult, Confidence |-> Confidence,
                 history |-> history,
                 reprompts |-> get_reprompt_count(db0, CallSid)]]
    /\ UNCHANGED <<call_logs, request, response, locked>>

\* POST /process-recording in worker w, from the silence test to the
\* response: the turn is computed from the history and the count loaded
\* before, its statements reach the tables now
finish_recording(w, gpt, geo_ok, places) ==
    /\ workers[w].busy
    /\ LET c == workers[w]
           out == DispatchTurn(conversations, call_logs, c.CallSid, c.history,
                               c.reprompts, c.SpeechResult, c.Confidence,
                               gpt, geo_ok, places)
       IN /\ conversations' = out.db
          /\ call_logs' = out.logs
          /\ response' = out.response
          /\ request' = [path |-> "/process-recording", CallSid |-> Some(c.CallSid),
                         SpeechResult |-> c.SpeechResult, Confidence |-> c.Confidence]
    /\ workers' = [workers EXCEPT ![w] = NoCallback]
    /\ UNCHANGED locked

\* no request handled, no response returned
NoRequest == [path |-> "", CallSid |-> NoneStr, SpeechResult |-> None,
              Confidence |-> NoneStr]

NoResponse == [status |-> 0, say |-> <<>>, hangup |-> FALSE]

\* another connection takes or releases the database lock; no request is
\* handled in this step
lock_database(rejections) ==
    /\ locked' = rejections
    /\ request' = NoRequest
    /\ response' = NoResponse
    /\ UNCHANGED <<conversations, call_logs, workers>>

Init ==
    /\ conversations = [sid \in CallSids |-> NoRow]
    /\ call_logs = <<>>
    /\ request = NoRequest
    /\ response = NoResponse
    /\ locked = NoFault
    /\ workers = [w \in Workers |-> NoCallback]

---------------------------------------------------------------------------
(* Inputs: what the telephony provider and the collaborators may send *)

U_WantVaccine == <<"I", " ", "want", " ", "a", " ", "vaccine">>

U_FluShot == <<"flu", " ", "shot">>

U_JaneDoe == <<"Jane", " ", "Doe">>

U_NextMonday == <<"next", " ", "Monday">>

U_Emergency == <<"this", " ", "is", " ", "an", " ", "EMERGENCY">>

U_Hours == <<"what", " ", "time", " ", "do", " ", "you", " ", "open">>

U_Refill == <<"renew", " ", "my", " ", "pills">>

U_Nearest == <<"nearest", " ", "pharmacy">>

U_Postal == <<" ", "K1A", " ", "0B1">>

U_Actually == <<"Actually", ",", " ", "Moderna">>

Said(speech, confidence) == [speech |-> speech, confidence |-> confidence]

\* every kind of turn, for the classification and routing claims
Inputs ==
    { Said(None, NoneStr),
      Said(Some(<<" ">>), Some("0.9")),
      Said(Some(U_JaneDoe), Some("0.3")),
      Said(Some(U_JaneDoe), Some("0.9")),
      Said(Some(U_WantVaccine), Some("0.9")),
      Said(Some(U_FluShot), Some("0.5")),
      Said(Some(U_Emergency), Some("0.99")),
      Said(Some(U_Hours), Some("0.9")),
      Said(Some(U_Refill), Some("0.9")),
      Said(Some(U_Nearest), Some("0.9")),
      Said(Some(U_Postal), Some("0.9")),
      Said(Some(U_Actually), Some("0.9")) }

SidInputs == {NoneStr} \cup {Some(sid) : sid \in CallSids}

GptOk(text) == [ok |-> TRUE, text |-> text]

GptError(cause) == [ok |-> FALSE, text |-> cause]

\* what the collaborators answer in one turn: the completion, the geocoder, the places search
External(gpt, geo_ok, places) == [gpt |-> gpt, geo_ok |-> geo_ok, places |-> places]

GptAnswer == GptOk(<<"Yes, we can help with that.">>)

PlacesAnswer == Some(<<"Main Street Pharmacy at 1 Main St">>)

AllAnswer == External(GptAnswer, TRUE, PlacesAnswer)

Externals ==
    { AllAnswer,
      External(GptError(<<"Request timed out.">>), TRUE, PlacesAnswer),
      External(GptAnswer, FALSE, PlacesAnswer),
      External(GptAnswer, TRUE, None) }

MaxTurns == 3

Recording ==
    \E sid \in CallSids, said \in Inputs, ext \in Externals :
        /\ Len(call_logs) < MaxTurns
        /\ process_recording(Some(sid), said.speech, said.confidence,
                             ext.gpt, ext.geo_ok, ext.places)

\* a recording callback without CallSid
Unroutable ==
    \E said \in {Said(Some(U_WantVaccine), Some("0.9"))} :
        process_recording(NoneStr, said.speech, said.confidence,
                          AllAnswer.gpt, AllAnswer.geo_ok, AllAnswer.places)

Incoming == \E sid \in SidInputs : incoming_call(sid)

Next == Recording \/ Unroutable \/ Incoming

Spec == Init /\ [][Next]_vars

---------------------------------------------------------------------------
(* The silence policy: silent, low-confidence and valid turns of one call, *)
(* the inbound-call webhook arriving once, when the call begins.           *)

SilenceInputs ==
    { Said(None, NoneStr),
      Said(Some(<<>>), NoneStr),
      Said(Some(<<" ">>), Some("0.9")),
      Said(Some(U_JaneDoe), Some("0.3")),
      Said(Some(U_Hours), Some("0.9")) }

MaxSilenceTurns == 5

RecordingSilence ==
    \E sid \in CallSids, said \in SilenceInputs :
        /\ Len(call_logs) < MaxSilenceTurns
        /\ process_recording(Some(sid), said.speech, said.confidence,
                             AllAnswer.gpt, AllAnswer.geo_ok, AllAnswer.places)

IncomingFirst ==
    \E sid \in CallSids :
        /\ request.path = ""
        /\ incoming_call(Some(sid))

NextSilence == RecordingSilence \/ IncomingFirst

SpecSilence == Init /\ [][NextSilence]_vars

---------------------------------------------------------------------------
(* The booking flow: confident utterances only, long enough to book *)

FlowInputs ==
    { Said(Some(U_WantVaccine), Some("0.9")),
      Said(Some(U_FluShot), Some("0.9")),
      Said(Some(U_JaneDoe), Some("0.9")),
      Said(Some(U_NextMonday), Some("0.9")) }

MaxFlowTurns == 7

RecordingFlow ==
    \E sid \in CallSids, said \in FlowInputs :
        /\ Len(call_logs) < MaxFlowTurns
        /\ process_recording(Some(sid), said.speech, said.confidence,
                             AllAnswer.gpt, AllAnswer.geo_ok, AllAnswer.places)

NextFlow == RecordingFlow

SpecFlow == Init /\ [][NextFlow]_vars

---------------------------------------------------------------------------
(* Callbacks that keep arriving for a call, also after a hang-up *)

RebookInputs ==
    { Said(Some(U_WantVaccine), Some("0.9")),
      Said(Some(U_JaneDoe), Some("0.9")) }

MaxRebookTurns == 12

RecordingRebook ==
    \E sid \in CallSids, said \in RebookInputs :
        /\ Len(call_logs) < MaxRebookTurns
        /\ process_recording(Some(sid), said.speech, said.confidence,
                             AllAnswer.gpt, AllAnswer.geo_ok, AllAnswer.places)

NextRebook == RecordingRebook

SpecRebook == Init /\ [][NextRebook]_vars

---------------------------------------------------------------------------
(* Vocabulary of the properties *)

\* the stored session of a call
Messages(sid) == conversations[sid].messages

RepromptCount(sid) == conversations[sid].reprompt_count

\* the Turn Log of a call, in the order the entries were appended
LogsOf(sid) == SelectSeq(call_logs, LAMBDA row : row.call_sid = sid)

\* the slot mapping of the stored history
Slots(sid) == slot_data(Messages(sid))

HasSlot(slots, key) == key \in DOMAIN slots

\* the most recent assistant message of a history, <<>> when there is none
LastAssistantMessage(history) ==
    LET idxs == {i \in 1..Len(history) : history[i].role = "assistant"}
    IN IF idxs = {} THEN <<>>
       ELSE history[CHOOSE i \in idxs : \A j \in idxs : j <= i].content

\* the dialogue state, derived from the most recent assistant message
AwaitingVaccineType(history) == LastAssistantMessage(history) = VaccinePrompt

AwaitingPatientName(history) == LastAssistantMessage(history) = NamePrompt

AwaitingDesiredDate(history) == LastAssistantMessage(history) = DatePrompt

AwaitingPostalCode(history) == LastAssistantMessage(history) = PostalPrompt

Idle(history) ==
    /\ ~AwaitingVaccineType(history)
    /\ ~AwaitingPatientName(history)
    /\ ~AwaitingDesiredDate(history)
    /\ ~AwaitingPostalCode(history)

\* the request is a recording callback for the call sid
RecordingFor(req, sid) ==
    /\ req.path = "/process-recording"
    /\ req.CallSid = Some(sid)

IsBlank(text) == \A i \in 1..Len(text) : text[i] = " "

\* turn outcomes of section 4.2
SaidNothing(req) == ~req.SpeechResult.some \/ IsBlank(req.SpeechResult.val)

SaidValid(req) ==
    /\ ~SaidNothing(req)
    /\ ParseConfidence(req.Confidence) >= 50

Trimmed(req) == Strip(req.SpeechResult.val, Whitespace)

\* a Valid utterance that does not begin with a correction keyword
SaidAnswer(req) == SaidValid(req) /\ ~IsCorrection(Trimmed(req))

UrgencyKeywords == {<<"urgent">>, <<"emergency">>, <<"immediately">>, <<"asap">>}

SaidUrgent(req) ==
    /\ req.SpeechResult.some
    /\ \E kw \in UrgencyKeywords : Contains(Lower(req.SpeechResult.val), kw)

BookedLabel == Some(<<"VACCINE_BOOKED">>)

BookedByCorrectionLabel == Some(<<"VACCINE_BOOKED (correction)">>)

IsBookingRow(row) == row.error_message \in {BookedLabel, BookedByCorrectionLabel}

\* the number of bookings recorded for a call
Bookings(sid) == Len(SelectSeq(LogsOf(sid), IsBookingRow))

\* the log row of a Valid, non-correcting turn that met no collaborator failure
IsAnswerRow(row) ==
    /\ row.user_text.some
    /\ row.assistant_reply.some
    /\ ~IsCorrection(row.user_text.val)
    /\ row.error_message \in {None, BookedLabel}

---------------------------------------------------------------------------
(* C1: from an empty session, four consecutive answers, the first with     *)
(* VACCINE intent, get the vaccine-type prompt, the name request, the date *)
(* request and the booking confirmation; the last three are captured as    *)
(* vaccine_type, patient_name and desired_date, and the fourth books and   *)
(* ends the call.                                                          *)
C1_FourAnswersBook ==
    \A sid \in CallSids :
        LET rows == LogsOf(sid)
            k == Len(rows)
            said(i) == rows[i].user_text.val
        IN
        ( /\ k \in 1..4
          /\ \A i \in 1..k : IsAnswerRow(rows[i])
          /\ classify_intent(said(1)) = "VACCINE" )
        =>
        /\ rows[1].assistant_reply = Some(VaccinePrompt)
        /\ k >= 2 => /\ rows[2].assistant_reply = Some(NamePrompt)
                     /\ HasSlot(Slots(sid), "vaccine_type")
                     /\ Slots(sid)["vaccine_type"] = said(2)
        /\ k >= 3 => /\ rows[3].assistant_reply = Some(DatePrompt)
                     /\ HasSlot(Slots(sid), "patient_name")
                     /\ Slots(sid)["patient_name"] = said(3)
        /\ k = 4 => /\ rows[4].assistant_reply
                          = Some(BookedReply(said(2), said(3), said(4)))
                    /\ rows[4].error_message = BookedLabel
                    /\ HasSlot(Slots(sid), "desired_date")
                    /\ Slots(sid)["desired_date"] = said(4)
                    /\ response.hangup

(* C2: in AwaitingVaccineType (the most recent assistant message is the    *)
(* vaccine-type prompt) the next answer u is stored as vaccine_type = u    *)
(* and the reply is the name request.                                      *)
C2_VaccineTypeCaptured ==
    [][ \A sid \in CallSids :
          ( /\ AwaitingVaccineType(Messages(sid))
            /\ RecordingFor(request', sid)
            /\ SaidAnswer(request') )
          =>
          /\ HasSlot(slot_data(conversations'[sid].messages), "vaccine_type")
          /\ slot_data(conversations'[sid].messages)["vaccine_type"] = Trimmed(request')
          /\ response' = GatherResponse(NamePrompt) ]_vars

C4_VaccineIntentOpensFlow ==
    [][ \A sid \in CallSids :
          ( /\ Idle(Messages(sid))
            /\ DOMAIN Slots(sid) = {}
            /\ RecordingFor(request', sid)
            /\ SaidAnswer(request')
            /\ classify_intent(Trimmed(request')) = "VACCINE" )
          =>
          /\ response' = GatherResponse(VaccinePrompt)
          /\ DOMAIN slot_data(conversations'[sid].messages) = {}
          /\ AwaitingVaccineType(conversations'[sid].messages) ]_vars

C7_UrgencyEscalates ==
    [][ \A sid \in CallSids :
          ( /\ RecordingFor(request', sid)
            /\ SaidUrgent(request') )
          =>
          /\ response'.status = 200
          /\ response'.hangup
          /\ slot_data(conversations'[sid].messages) = Slots(sid) ]_vars

---------------------------------------------------------------------------
(* Silence policy *)

(* C8: a silent turn at a stored reprompt_count below 3 gets the "didn't   *)
(* hear you" reprompt, the call continues, reprompt_count grows by exactly *)
(* one and the stored history is unchanged.                                *)
C8_SilenceReprompts ==
    [][ \A sid \in CallSids :
          ( /\ RecordingFor(request', sid)
            /\ SaidNothing(request')
            /\ RepromptCount(sid) < 3 )
          =>
          /\ response' = GatherResponse(SilenceReprompt)
          /\ conversations'[sid].reprompt_count = RepromptCount(sid) + 1
          /\ conversations'[sid].messages = Messages(sid) ]_vars

\* a silent turn after a valid one: the counter went from 0 to 1, the history is kept
C8_Witness ==
    \E sid \in CallSids :
        /\ RecordingFor(request, sid)
        /\ SaidNothing(request)
        /\ response = GatherResponse(SilenceReprompt)
        /\ RepromptCount(sid) = 1
        /\ Messages(sid) # <<>>

(* C9: a silent turn at reprompt_count 3 gets the goodbye, the call is     *)
(* hung up and reprompt_count stays 3; a silent turn at reprompt_count 2   *)
(* leaves it at 3, so the silent turn after it is the one that hangs up.   *)
C9_SilenceCap ==
    [][ \A sid \in CallSids :
          ( /\ RecordingFor(request', sid)
            /\ SaidNothing(request') )
          =>
          /\ RepromptCount(sid) = 3 =>
                /\ response' = HangupResponse(SilenceGoodbye)
                /\ conversations'[sid].reprompt_count = 3
          /\ RepromptCount(sid) = 2 =>
                conversations'[sid].reprompt_count = 3 ]_vars

\* the goodbye has been said at reprompt_count 3
C9_Witness ==
    \E sid \in CallSids :
        /\ RecordingFor(request, sid)
        /\ SaidNothing(request)
        /\ response = HangupResponse(SilenceGoodbye)
        /\ RepromptCount(sid) = 3

IsSilenceRow(row) ==
    row.error_message \in { Some(<<"Silence reprompt">>),
                            Some(<<"Silence hangup after 3 reprompts">>) }

IsLowConfidenceRow(row) ==
    /\ row.error_message.some
    /\ Head(row.error_message.val) = "Low confidence ("

\* the log row of a Valid turn
IsValidTurnRow(row) == ~IsSilenceRow(row) /\ ~IsLowConfidenceRow(row)

\* the number of silent turns at the end of a log
RECURSIVE TrailingSilences(_)
TrailingSilences(rows) ==
    IF rows = <<>> THEN 0
    ELSE IF IsSilenceRow(rows[Len(rows)])
         THEN 1 + TrailingSilences(SubSeq(rows, 1, Len(rows) - 1))
         ELSE 0

\* the silent turns at the end of the log began at reprompt_count 0: at the
\* start of the call or right after a Valid turn
SilencesFromZero(rows) ==
    LET n == TrailingSilences(rows)
    IN n = Len(rows) \/ IsValidTurnRow(rows[Len(rows) - n])

(* C10, as claimed: of three consecutive silent turns that begin at        *)
(* reprompt_count 0, the third gets the goodbye and ends the call.         *)
C10_ThirdSilenceHangsUp ==
    [][ \A sid \in CallSids :
          ( /\ RecordingFor(request', sid)
            /\ SaidNothing(request')
            /\ SilencesFromZero(LogsOf(sid))
            /\ TrailingSilences(LogsOf(sid)) = 2 )
          =>
          response' = HangupResponse(SilenceGoodbye) ]_vars

(* C10, amended: of four consecutive silent turns that begin at            *)
(* reprompt_count 0, the first three get the reprompt and the fourth gets  *)
(* the goodbye and ends the call.                                          *)
C10_FourthSilenceHangsUp ==
    [][ \A sid \in CallSids :
          ( /\ RecordingFor(request', sid)
            /\ SaidNothing(request')
            /\ SilencesFromZero(LogsOf(sid)) )
          =>
          /\ TrailingSilences(LogsOf(sid)) < 3 =>
                response' = GatherResponse(SilenceReprompt)
          /\ TrailingSilences(LogsOf(sid)) = 3 =>
                response' = HangupResponse(SilenceGoodbye) ]_vars

\* a valid turn, then four silent turns, the last of which hung up
C10_Witness ==
    \E sid \in CallSids :
        LET rows == LogsOf(sid) IN
        /\ Len(rows) = 5
        /\ IsValidTurnRow(rows[1])
        /\ TrailingSilences(rows) = 4
        /\ rows[4].error_message = Some(<<"Silence reprompt">>)
        /\ response = HangupResponse(SilenceGoodbye)

---------------------------------------------------------------------------
\* the request is a recording callback with a non-blank utterance whose
\* confidence is below 0.5, missing or not a number
SaidLowConfidence(req) ==
    /\ ~SaidNothing(req)
    /\ \/ ~req.Confidence.some
       \/ req.Confidence.val \notin FloatStrings
       \/ ParseFloat(req.Confidence.val) < 50

(* C11: after a Valid turn (non-blank utterance, confidence at least 0.5)  *)
(* the stored reprompt_count of the call is 0, whichever branch handled    *)
(* the turn.                                                               *)
C11_ValidResetsCounter ==
    [][ \A sid \in CallSids :
          ( /\ RecordingFor(request', sid)
            /\ SaidValid(request') )
          =>
          conversations'[sid].reprompt_count = 0 ]_vars

\* a Valid turn was handled right after a silent turn that had raised the
\* counter, and the counter is back at 0
C11_Witness ==
    \E sid \in CallSids :
        LET rows == LogsOf(sid) IN
        /\ RecordingFor(request, sid)
        /\ SaidValid(request)
        /\ Len(rows) >= 2
        /\ rows[Len(rows) - 1].error_message = Some(<<"Silence reprompt">>)
        /\ IsValidTurnRow(rows[Len(rows)])
        /\ RepromptCount(sid) = 0

(* C12: a LowConfidence turn is answered with the repeat request inside a  *)
(* new gather, does not end the call and leaves the stored reprompt_count  *)
(* and the stored history as they were.                                    *)
C12_LowConfidenceKeepsState ==
    [][ \A sid \in CallSids :
          ( /\ RecordingFor(request', sid)
            /\ SaidLowConfidence(request') )
          =>
          /\ response' = GatherResponse(LowConfidenceReprompt)
          /\ ~response'.hangup
          /\ conversations'[sid].reprompt_count = RepromptCount(sid)
          /\ conversations'[sid].messages = Messages(sid) ]_vars

\* a LowConfidence turn was handled while the counter was raised and the
\* history was not empty; both are still so
C12_Witness ==
    \E sid \in CallSids :
        LET rows == LogsOf(sid) IN
        /\ RecordingFor(request, sid)
        /\ SaidLowConfidence(request)
        /\ rows # <<>>
        /\ IsLowConfidenceRow(rows[Len(rows)])
        /\ RepromptCount(sid) > 0
        /\ Messages(sid) # <<>>
        /\ response = GatherResponse(LowConfidenceReprompt)

---------------------------------------------------------------------------
(* Turn classification: every kind of utterance with every kind of         *)
(* confidence field                                                        *)

U_PaddedName == <<" ", "Jane", " ">>

ConfidenceSpeeches ==
    {None, Some(<<>>), Some(<<" ">>), Some(U_Hours), Some(U_PaddedName)}

ConfidenceFields ==
    {NoneStr, Some("high"), Some("0.3"), Some("0.49"), Some("0.5"), Some("0.9")}

MaxConfidenceTurns == 2

RecordingConfidence ==
    \E sid \in CallSids, speech \in ConfidenceSpeeches, field \in ConfidenceFields :
        /\ Len(call_logs) < MaxConfidenceTurns
        /\ process_recording(Some(sid), speech, field,
                             AllAnswer.gpt, AllAnswer.geo_ok, AllAnswer.places)

NextConfidence == RecordingConfidence

SpecConfidence == Init /\ [][NextConfidence]_vars

\* the confidence field is a number that is at least 0.5
ConfidentEnough(req) ==
    /\ req.Confidence.some
    /\ req.Confidence.val \in FloatStrings
    /\ ParseFloat(req.Confidence.val) >= 50

(* C13: a recording callback whose utterance has no urgency keyword gets   *)
(* exactly one outcome.  It is Silence iff the utterance is absent, empty  *)
(* or blank, whatever the confidence; LowConfidence iff the utterance is   *)
(* not blank and the confidence is below 0.5, missing or not a number;     *)
(* Valid iff the utterance is not blank and the confidence is at least     *)
(* 0.5.  Only a Valid utterance is acted upon: it is logged trimmed with   *)
(* a reply; a LowConfidence one gets the repeat request and changes no     *)
(* history.                                                                *)
C13_ExactlyOneOutcome ==
    [][ \A sid \in CallSids :
          ( /\ RecordingFor(request', sid)
            /\ ~SaidUrgent(request') )
          =>
          LET row == call_logs'[Len(call_logs')]
              silence == IsSilenceRow(row)
              low == /\ IsLowConfidenceRow(row)
                     /\ response' = GatherResponse(LowConfidenceReprompt)
                     /\ conversations'[sid].messages = Messages(sid)
              valid == /\ IsValidTurnRow(row)
                       /\ row.user_text = Some(Trimmed(request'))
                       /\ row.assistant_reply = Some(response'.say)
          IN
          /\ Len(call_logs') = Len(call_logs) + 1
          /\ silence <=> SaidNothing(request')
          /\ low <=> (~SaidNothing(request') /\ ~ConfidentEnough(request'))
          /\ valid <=> (~SaidNothing(request') /\ ConfidentEnough(request'))
          /\ (silence /\ ~low /\ ~valid) \/ (~silence /\ low /\ ~valid)
                \/ (~silence /\ ~low /\ valid) ]_vars

\* a padded utterance was acted upon trimmed, and then an utterance whose
\* confidence field is not a number got the repeat request, logged as 0.0
C13_Witness ==
    \E sid \in CallSids :
        LET rows == LogsOf(sid) IN
        /\ Len(rows) = 2
        /\ rows[1].user_text = Some(<<"Jane">>)
        /\ rows[1].assistant_reply = Some(GptAnswer.text)
        /\ RecordingFor(request, sid)
        /\ request.Confidence = Some("high")
        /\ request.SpeechResult = Some(U_Hours)
        /\ rows[2].error_message = Some(<<"Low confidence (", "0.0", ")">>)
        /\ response = GatherResponse(LowConfidenceReprompt)

---------------------------------------------------------------------------
(* Intent routing: utterances that carry one keyword, several keywords of  *)
(* different intents, or none                                              *)

U_Vaccination == <<"vaccination", "s">>

U_RefillShot == <<"REFILL", " ", "my", " ", "flu", " ", "shot">>

U_PrescriptionHours == <<"prescription", " ", "hour", "s">>

U_OpeningHours == <<"open", "ing", " ", "hour", "s">>

U_NearestOpen == <<"nearest", " ", "pharmacy", " ", "open">>

U_PharmacyNearMe == <<"a", " ", "pharmacy", " ", "near", " ", "me">>

U_Pharmacy == <<"where", " ", "is", " ", "the", " ", "pharmacy">>

IntentInputs ==
    { Said(Some(u), Some("0.9")) :
        u \in { U_WantVaccine, U_FluShot, U_Vaccination, U_RefillShot, U_Refill,
                U_PrescriptionHours, U_OpeningHours, U_Hours, U_NearestOpen,
                U_Nearest, U_PharmacyNearMe, U_Pharmacy, U_JaneDoe } }

MaxIntentTurns == 2

RecordingIntent ==
    \E sid \in CallSids, said \in IntentInputs :
        /\ Len(call_logs) < MaxIntentTurns
        /\ process_recording(Some(sid), said.speech, said.confidence,
                             AllAnswer.gpt, AllAnswer.geo_ok, AllAnswer.places)

NextIntent == RecordingIntent

SpecIntent == Init /\ [][NextIntent]_vars

\* first match in the order VACCINE, REFILL, HOURS, NEAREST over the
\* lower-cased text, with the given keywords for NEAREST
FirstMatch(text, nearest) ==
    LET lower == Lower(text)
        has(kws) == \E kw \in kws : Contains(lower, kw)
    IN
    IF has({<<"vaccine">>, <<"vaccination">>, <<"shot">>}) THEN "VACCINE"
    ELSE IF has({<<"refill">>, <<"renew">>, <<"prescription">>}) THEN "REFILL"
    ELSE IF has({<<"hour">>, <<"open">>, <<"close">>, <<"time">>}) THEN "HOURS"
    ELSE IF has(nearest) THEN "NEAREST"
    ELSE "GENERAL"

\* what the caller hears for an intent outside any flow
RoutedReply(intent) ==
    CASE intent = "VACCINE" -> VaccinePrompt
      [] intent = "REFILL"  -> RefillReply
      [] intent = "HOURS"   -> HoursReply
      [] intent = "NEAREST" -> PostalPrompt
      [] intent = "GENERAL" -> GptAnswer.text

\* the utterance of a Valid turn is classified as the matcher with the
\* given NEAREST keywords says, and routed so when it opens the call
ClassifiedBy(nearest) ==
    \A sid \in CallSids :
        ( /\ RecordingFor(request', sid)
          /\ SaidAnswer(request') )
        =>
        LET intent == FirstMatch(Trimmed(request'), nearest) IN
        /\ classify_intent(Trimmed(request')) = intent
        /\ Messages(sid) = <<>> => response'.say = RoutedReply(intent)

(* C14, as claimed: the intent is the first match, over the lower-cased    *)
(* text, of "vaccine"/"vaccination"/"shot" (VACCINE), then "refill"/       *)
(* "renew"/"prescription" (REFILL), then "hour"/"open"/"close"/"time"      *)
(* (HOURS), then the substring "pharmacy" (NEAREST), otherwise GENERAL.    *)
C14_PharmacyIsNearest ==
    [][ ClassifiedBy({<<"pharmacy">>}) ]_vars

(* C14, amended: the same first-match order, but NEAREST needs one of the  *)
(* phrases "nearest pharmacy", "closest pharmacy", "find pharmacy" or      *)
(* "pharmacy near me"; "pharmacy" alone is GENERAL.                        *)
C14_PharmacyPhraseIsNearest ==
    [][ ClassifiedBy({ <<"nearest", " ", "pharmacy">>,
                       <<"closest", " ", "pharmacy">>,
                       <<"find", " ", "pharmacy">>,
                       <<"pharmacy", " ", "near", " ", "me">> }) ]_vars

\* "where is the pharmacy" opened a call and went to the completion, and
\* "REFILL my flu shot" then opened the vaccine flow
C14_Witness ==
    \E sid \in CallSids :
        LET rows == LogsOf(sid) IN
        /\ Len(rows) = 2
        /\ rows[1].user_text = Some(U_Pharmacy)
        /\ rows[1].assistant_reply = Some(GptAnswer.text)
        /\ rows[2].user_text = Some(U_RefillShot)
        /\ rows[2].assistant_reply = Some(VaccinePrompt)

---------------------------------------------------------------------------
(* Callbacks of one call handled by two worker processes at once: each     *)
(* loads the session, and computes and stores its turn later               *)

ConcurrentInputs ==
    { Said(None, NoneStr),
      Said(Some(U_Hours), Some("0.9")),
      Said(Some(U_Refill), Some("0.9")) }

MaxConcurrentTurns == 4

InFlight == Cardinality({w \in Workers : workers[w].busy})

LoadConcurrent ==
    \E w \in Workers, sid \in CallSids, said \in ConcurrentInputs :
        /\ Len(call_logs) + InFlight < MaxConcurrentTurns
        /\ load_recording(w, sid, said.speech, said.confidence)

FinishConcurrent ==
    \E w \in Workers :
        finish_recording(w, AllAnswer.gpt, AllAnswer.geo_ok, AllAnswer.places)

NextConcurrent == LoadConcurrent \/ FinishConcurrent

SpecConcurrent == Init /\ [][NextConcurrent]_vars

\* the assistant messages of a history
AssistantMessages(history) == SelectSeq(history, LAMBDA m : m.role = "assistant")

(* C15: callbacks of one call do not interleave their read-modify-write of *)
(* the session: once no callback is in flight, the stored history holds    *)
(* the assistant entry of every Valid turn handled so far, one per turn,   *)
(* also when two of the turns were handled at the same time.               *)
C15_NoLostUpdate ==
    \A sid \in CallSids :
        (\A w \in Workers : ~workers[w].busy)
        =>
        LET turns == SelectSeq(LogsOf(sid), IsValidTurnRow)
            said == AssistantMessages(Messages(sid))
        IN /\ Len(said) = Len(turns)
           /\ \A i \in 1..Len(turns) :
                 \E j \in 1..Len(said) : said[j].content = turns[i].assistant_reply.val

(* C16: in every reachable state, also those reached by interleaved        *)
(* callbacks of one call, the stored reprompt_count is between 0 and 3.    *)
C16_CounterInRange ==
    \A sid \in CallSids : RepromptCount(sid) \in 0..3

---------------------------------------------------------------------------
(* Lock conflicts: another connection holds the database lock while a      *)
(* callback runs, so that SQLite rejects some of its statements            *)

\* the next attempt of op is rejected, the one after it is accepted
RejectedOnce(op) == [NoFault EXCEPT ![op] = 1]

\* every attempt that retry_sqlite could make of op is rejected
RejectedAlways(op) == [NoFault EXCEPT ![op] = retries + 1]

StoreFaults ==
    {NoFault} \cup {RejectedOnce(op) : op \in StoreOps}
              \cup {RejectedAlways(op) : op \in StoreOps}

StoreInputs ==
    { Said(None, NoneStr),
      Said(Some(U_WantVaccine), Some("0.9")),
      Said(Some(U_JaneDoe), Some("0.9")) }

MaxStoreTurns == 2

RecordingStore ==
    \E sid \in CallSids, said \in StoreInputs :
        /\ Len(call_logs) < MaxStoreTurns
        /\ Len(conversations[sid].messages) < MaxStoreTurns
        /\ process_recording(Some(sid), said.speech, said.confidence,
                             AllAnswer.gpt, AllAnswer.geo_ok, AllAnswer.places)

LockStore == \E rejections \in StoreFaults : lock_database(rejections)

NextStore == RecordingStore \/ LockStore

SpecStore == Init /\ [][NextStore]_vars

\* no store operation is rejected more often than retry_sqlite calls again
WithinRetryBudget == \A op \in StoreOps : locked[op] <= retries

(* C17: a store operation (session load, history save, counter increment   *)
(* or reset, log append) that is rejected with a lock conflict is          *)
(* attempted again, so that an operation rejected once and accepted on the *)
(* next attempt takes effect: the turn appends its log entry, a silent     *)
(* turn below the cap adds 1 to the counter, a Valid turn resets the       *)
(* counter and extends the stored history by its reply.                    *)
C17_RejectedOnceTakesEffect ==
    [][ \A sid \in CallSids :
          ( /\ RecordingFor(request', sid)
            /\ WithinRetryBudget )
          =>
          /\ Len(call_logs') = Len(call_logs) + 1
          /\ (SaidNothing(request') /\ RepromptCount(sid) < 3) =>
                conversations'[sid].reprompt_count = RepromptCount(sid) + 1
          /\ SaidValid(request') =>
                /\ conversations'[sid].reprompt_count = 0
                /\ Len(conversations'[sid].messages) > Len(Messages(sid))
                /\ SubSeq(conversations'[sid].messages, 1, Len(Messages(sid)))
                      = Messages(sid) ]_vars


\* the statement of op is rejected on every attempt
Failed(op) == locked[op] > retries

\* the reply to a first utterance of a call, by intent
FirstReply(text) ==
    RoutedReply(FirstMatch(text, { <<"nearest", " ", "pharmacy">>,
                                   <<"closest", " ", "pharmacy">>,
                                   <<"find", " ", "pharmacy">>,
                                   <<"pharmacy", " ", "near", " ", "me">> }))

(* C18: whatever store operation of a turn is rejected, once or on every   *)
(* attempt, the recording callback answers 200 with a spoken reply.  The   *)
(* reply is computed from best-effort state: when the count cannot be read *)
(* a silent turn is answered as at count 0, with the reprompt; when the    *)
(* history cannot be loaded an answer is handled as the first utterance of *)
(* a call.  The call ends only where it can end without the rejection: on *)
(* a silent turn at the cap, or on a Valid turn whose history was loaded   *)
(* and holds the date request.                                             *)
C18_StoreFailureStillReplies ==
    [][ \A sid \in CallSids :
          RecordingFor(request', sid)
          =>
          /\ response'.status = 200
          /\ response'.say # <<>>
          /\ (SaidNothing(request') /\ Failed("get_reprompt_count")) =>
                response' = GatherResponse(SilenceReprompt)
          /\ (SaidAnswer(request') /\ Failed("get_history")) =>
                response' = GatherResponse(FirstReply(Trimmed(request')))
          /\ response'.hangup =>
                \/ SaidNothing(request') /\ RepromptCount(sid) >= 3
                \/ /\ SaidValid(request')
                   /\ locked["get_history"] = 0
                   /\ \E i \in 1..Len(Messages(sid)) :
                         Messages(sid)[i] = AssistantMsg(DatePrompt) ]_vars

\* the history of a call in the vaccine flow could not be loaded: the
\* caller's answer was handled as a first utterance and the stored history
\* was replaced by the reply alone
C18_Witness ==
    \E sid \in CallSids :
        LET rows == LogsOf(sid) IN
        /\ Failed("get_history")
        /\ RecordingFor(request, sid)
        /\ request.SpeechResult = Some(U_JaneDoe)
        /\ Len(rows) = 2
        /\ rows[1].assistant_reply = Some(VaccinePrompt)
        /\ rows[2].assistant_reply = Some(GptAnswer.text)
        /\ response = GatherResponse(GptAnswer.text)
        /\ Messages(sid) = <<AssistantMsg(GptAnswer.text)>>

---------------------------------------------------------------------------
(* The completion collaborator is down: every call of it raises *)

GptCauses == {<<"Request timed out.">>, <<"Rate limit reached.">>}

CompletionInputs ==
    { Said(None, NoneStr),
      Said(Some(U_JaneDoe), Some("0.9")),
      Said(Some(U_Emergency), Some("0.99")),
      Said(Some(U_Hours), Some("0.9")),
      Said(Some(U_WantVaccine), Some("0.9")) }

MaxCompletionTurns == 3

RecordingCompletion ==
    \E sid \in CallSids, said \in CompletionInputs, cause \in GptCauses :
        /\ Len(call_logs) < MaxCompletionTurns
        /\ process_recording(Some(sid), said.speech, said.confidence,
                             GptError(cause), TRUE, PlacesAnswer)

NextCompletion == RecordingCompletion

SpecCompletion == Init /\ [][NextCompletion]_vars

\* the previous prompt, as the handler reads it, belongs to no flow: the
\* turn is routed by intent
RoutedByIntent(history) ==
    \A prefix \in {PostalPrefix, VaccinePrefix, NamePrefix, DatePrefix} :
        ~StartsWith(last_assistant(history), prefix)

---------------------------------------------------------------------------
\* the request carries no call identifier
LacksCallSid(req) ==
    /\ req.path \in {"/incoming-call", "/process-recording"}
    /\ ~req.CallSid.some \/ req.CallSid.val = ""

(* C20: an inbound-call or recording callback without call identifier is   *)
(* answered 400 and changes nothing: no session is created, no history and *)
(* no reprompt counter changes, no Turn Log entry is appended.             *)
C20_MissingCallSidRejected ==
    [][ LacksCallSid(request')
        =>
        /\ response' = Http400
        /\ conversations' = conversations
        /\ call_logs' = call_logs ]_vars

\* a recording callback without call identifier was rejected while a
\* session with a raised counter and a Turn Log existed
C20_Witness ==
    /\ LacksCallSid(request)
    /\ request.path = "/process-recording"
    /\ request.SpeechResult.some
    /\ response = Http400
    /\ call_logs # <<>>
    /\ \E sid \in CallSids : conversations[sid].exists /\ RepromptCount(sid) > 0

---------------------------------------------------------------------------
\* worker w takes up a recording callback in this step
Loads(w) == ~workers[w].busy /\ workers'[w].busy

(* C21: loading the session of a call that has no record creates the      *)
(* record with empty history and reprompt_count 0 and returns these;       *)
(* loading the session of a call that has a record returns the stored      *)
(* history and count and changes nothing in the store, so that a second    *)
(* load with no write in between returns what the first one returned.      *)
C21_LoadCreatesOnceAndRepeats ==
    [][ \A w \in Workers :
          Loads(w)
          =>
          LET sid == workers'[w].CallSid
              loaded == workers'[w]
          IN
          /\ ~conversations[sid].exists =>
                /\ conversations'[sid]
                      = [exists |-> TRUE, messages |-> <<>>, reprompt_count |-> 0]
                /\ loaded.history = <<>>
                /\ loaded.reprompts = 0
          /\ conversations[sid].exists =>
                /\ conversations' = conversations
                /\ loaded.history = Messages(sid)
                /\ loaded.reprompts = RepromptCount(sid)
          /\ \A v \in Workers \ {w} :
                ( /\ workers[v].busy
                  /\ workers[v].CallSid = sid
                  /\ workers[v].history = Messages(sid)
                  /\ workers[v].reprompts = RepromptCount(sid) )
                =>
                /\ loaded.history = workers[v].history
                /\ loaded.reprompts = workers[v].reprompts
                /\ conversations' = conversations ]_vars

\* two callbacks of one call are in flight, both loaded the same stored
\* history (not empty) and the same count (raised)
C21_Witness ==
    \E sid \in CallSids :
        /\ \A w \in Workers : workers[w].busy /\ workers[w].CallSid = sid
        /\ \A w \in Workers : workers[w].history = Messages(sid)
        /\ \A w \in Workers : workers[w].reprompts = RepromptCount(sid)
        /\ Messages(sid) # <<>>
        /\ RepromptCount(sid) > 0

---------------------------------------------------------------------------
\* the positions of the system entries of a history that carry the key
EntriesFor(history, key) ==
    {i \in 1..Len(history) : history[i].role = "system" /\ history[i].slot = key}

SlotKeys == {"vaccine_type", "patient_name", "desired_date", "nearest_postal"}

\* the stored history holds two entries for one key, with different values
HasOverriddenSlot(sid) ==
    \E key \in SlotKeys :
        \E i, j \in EntriesFor(Messages(sid), key) :
            i < j /\ Messages(sid)[i].content # Messages(sid)[j].content

(* C22: the slot mapping of a history has exactly the keys carried by its  *)
(* system entries, and maps each key to the value of the last system entry *)
(* that carries it: a later entry overrides an earlier one.                *)
C22_LastSlotEntryWins ==
    \A sid \in CallSids :
        \A key \in SlotKeys :
            LET entries == EntriesFor(Messages(sid), key)
                last == CHOOSE i \in entries : \A j \in entries : j <= i
            IN /\ HasSlot(Slots(sid), key) <=> entries # {}
               /\ entries # {} => Slots(sid)[key] = Messages(sid)[last].content

\* a stored history with two different values for one key, and with
\* entries for at least two keys
C22_Witness ==
    \E sid \in CallSids :
        /\ HasOverriddenSlot(sid)
        /\ Cardinality(DOMAIN Slots(sid)) >= 2

---------------------------------------------------------------------------
(* Corrections: utterances that open a flow, fill a slot or begin with a   *)
(* correction keyword                                                      *)

CorrectionInputs ==
    { Said(Some(u), Some("0.9")) :
        u \in {U_WantVaccine, U_JaneDoe, U_Nearest, U_Actually} }

MaxCorrectionTurns == 6

RecordingCorrection ==
    \E sid \in CallSids, said \in CorrectionInputs :
        /\ Len(call_logs) < MaxCorrectionTurns
        /\ process_recording(Some(sid), said.speech, said.confidence,
                             AllAnswer.gpt, AllAnswer.geo_ok, AllAnswer.places)

NextCorrection == RecordingCorrection

SpecCorrection == Init /\ [][NextCorrection]_vars

\* the sequence s begins with the sequence p
IsPrefix(p, s) == Len(p) <= Len(s) /\ SubSeq(s, 1, Len(p)) = p

(* C23: the history of a call is append-only: the history stored by a step *)
(* begins with the history stored before the step, so that no turn         *)
(* removes, rewrites or reorders a stored entry.                           *)
C23_HistoryAppendOnly ==
    [][ \A sid \in CallSids :
          IsPrefix(Messages(sid), conversations'[sid].messages) ]_vars

---------------------------------------------------------------------------
(* C24: after a Valid turn the stored history holds a user message with    *)
(* the caller's trimmed utterance of the turn, placed before the turn's    *)
(* assistant reply.                                                        *)
C24_UtteranceStored ==
    [][ \A sid \in CallSids :
          ( /\ RecordingFor(request', sid)
            /\ SaidValid(request') )
          =>
          LET h == conversations'[sid].messages IN
          \E i, j \in 1..Len(h) :
              /\ i < j
              /\ h[i].role = "user"
              /\ h[i].content = Trimmed(request')
              /\ h[j] = AssistantMsg(response'.say) ]_vars

---------------------------------------------------------------------------
\* what the caller hears after the lookup of a postal code
LookupReplies ==
    {GeocodeFailedReply, PlacesFailedReply, NearestListReply(PlacesAnswer.val)}

(* C25: when the postal-code prompt is the most recent assistant message,  *)
(* the next Valid utterance that is no correction is taken as the postal   *)
(* code: it is stored, spaces removed, as nearest_postal and the reply is  *)
(* the outcome of the lookup, not the reply of a newly classified intent.  *)
C25_PostalCodeCaptured ==
    [][ \A sid \in CallSids :
          ( /\ AwaitingPostalCode(Messages(sid))
            /\ RecordingFor(request', sid)
            /\ SaidAnswer(request') )
          =>
          /\ HasSlot(slot_data(conversations'[sid].messages), "nearest_postal")
          /\ slot_data(conversations'[sid].messages)["nearest_postal"]
                = RemoveSpaces(Trimmed(request'))
          /\ response'.say \in LookupReplies ]_vars

---------------------------------------------------------------------------
\* the intent of the utterance of a request
SaidIntent(req) == FirstMatch(Trimmed(req), IntentNearestKeywords)

(* C26: in Idle (the most recent assistant message is no prompt of a flow) *)
(* a Valid utterance, no correction, with REFILL or HOURS intent gets the  *)
(* canned reply of the intent inside a new gather, stores no slot and      *)
(* leaves the session Idle.                                                *)
C26_CannedReplyStaysIdle ==
    [][ \A sid \in CallSids :
          ( /\ Idle(Messages(sid))
            /\ RecordingFor(request', sid)
            /\ SaidAnswer(request')
            /\ SaidIntent(request') \in {"REFILL", "HOURS"} )
          =>
          /\ response' = GatherResponse(RoutedReply(SaidIntent(request')))
          /\ slot_data(conversations'[sid].messages) = Slots(sid)
          /\ Idle(conversations'[sid].messages) ]_vars

---------------------------------------------------------------------------
(* The life of a session record: inbound-call webhooks and recording       *)
(* callbacks, with the load or the reset rejected at times                 *)

LifecycleFaults ==
    { NoFault, RejectedOnce("get_history"), RejectedAlways("get_history"),
      RejectedOnce("reset_reprompt_count") }

LifecycleInputs ==
    { Said(None, NoneStr),
      Said(Some(U_Hours), Some("0.9")) }

MaxLifecycleTurns == 3

RecordingLifecycle ==
    \E sid \in CallSids, said \in LifecycleInputs :
        /\ Len(call_logs) < MaxLifecycleTurns
        /\ process_recording(Some(sid), said.speech, said.confidence,
                             AllAnswer.gpt, AllAnswer.geo_ok, AllAnswer.places)

IncomingLifecycle == \E sid \in CallSids : incoming_call(Some(sid))

LockLifecycle == \E rejections \in LifecycleFaults : lock_database(rejections)

NextLifecycle == RecordingLifecycle \/ IncomingLifecycle \/ LockLifecycle

SpecLifecycle == Init /\ [][NextLifecycle]_vars

\* the request is an inbound-call webhook for the call sid
IncomingFor(req, sid) ==
    /\ req.path = "/incoming-call"
    /\ req.CallSid = Some(sid)

(* C27, as claimed: after the inbound-call webhook has been handled for a  *)
(* call identifier, a session record exists for it with reprompt_count 0.  *)
C27_IncomingCreatesSession ==
    [][ \A sid \in CallSids :
          IncomingFor(request', sid)
          =>
          /\ conversations'[sid].exists
          /\ conversations'[sid].reprompt_count = 0 ]_vars

(* C27, amended: the inbound-call webhook creates no session record; it    *)
(* sets the reprompt_count of a record that exists to 0, unless the reset  *)
(* is rejected, and changes nothing else.  A record exists after every     *)
(* recording callback whose load reaches the store.  No step deletes a     *)
(* record.                                                                 *)
C27_RecordingCreatesSession ==
    [][ \A sid \in CallSids :
          /\ conversations[sid].exists => conversations'[sid].exists
          /\ IncomingFor(request', sid) =>
                /\ conversations'[sid].exists = conversations[sid].exists
                /\ conversations'[sid].messages = Messages(sid)
                /\ locked["reset_reprompt_count"] = 0 =>
                      conversations'[sid].reprompt_count = 0
                /\ call_logs' = call_logs
          /\ (RecordingFor(request', sid) /\ locked["get_history"] = 0) =>
                conversations'[sid].exists ]_vars

\* the inbound-call webhook was answered with the greeting and the call
\* has no session record
C27_Witness ==
    \E sid \in CallSids :
        /\ IncomingFor(request, sid)
        /\ response = GatherResponse(GreetingText)
        /\ ~conversations[sid].exists
        /\ locked = NoFault

---------------------------------------------------------------------------
\* worker w writes the turn of its callback in this step
Finishes(w) == workers[w].busy /\ ~workers'[w].busy

\* the callback in a worker is a silent one / a Valid one
SilentCallback(c) == ~c.SpeechResult.some \/ IsBlank(c.SpeechResult.val)

ValidCallback(c) ==
    /\ ~SilentCallback(c)
    /\ c.Confidence.some
    /\ c.Confidence.val \in FloatStrings
    /\ ParseFloat(c.Confidence.val) >= 50

(* C28: a counter mutation acts on the value stored at the time of the     *)
(* write, not on the value the callback loaded: the increment of a silent  *)
(* callback below the cap raises the stored reprompt_count by exactly 1,   *)
(* also when another callback has changed it since the load, and the reset *)
(* of a Valid callback leaves 0.  Two callbacks in flight that both        *)
(* increment raise the count by 2; an increment and a reset in flight      *)
(* leave 0 or 1, as the order of the two writes gives.                     *)
C28_CounterWritesAreAtomic ==
    [][ \A w \in Workers :
          Finishes(w)
          =>
          LET c == workers[w]
              sid == c.CallSid
          IN
          /\ (SilentCallback(c) /\ c.reprompts < 3) =>
                conversations'[sid].reprompt_count = RepromptCount(sid) + 1
          /\ ValidCallback(c) =>
                conversations'[sid].reprompt_count = 0 ]_vars

\* two increments have been written, the second one while a silent
\* callback that had loaded an older count was in flight
C28_Witness ==
    \E sid \in CallSids :
        /\ RepromptCount(sid) = 2
        /\ Len(LogsOf(sid)) = 2
        /\ \A i \in 1..2 : LogsOf(sid)[i].error_message = Some(<<"Silence reprompt">>)
        /\ \E w \in Workers :
              /\ workers[w].busy
              /\ SilentCallback(workers[w])
              /\ workers[w].reprompts < RepromptCount(sid)

---------------------------------------------------------------------------
\* the position of the most recent system entry of a history, 0 if none
LastSlotEntry(history) ==
    LET entries == {i \in 1..Len(history) : history[i].role = "system"}
    IN IF entries = {} THEN 0
       ELSE CHOOSE i \in entries : \A j \in entries : j <= i

---------------------------------------------------------------------------
(* C30: within one call the turn_number values of the Turn Log entries     *)
(* never decrease in the order the entries were appended, whatever the     *)
(* sequence of Silence, LowConfidence and Valid turns.                     *)
C30_TurnNumbersNeverDecrease ==
    \A sid \in CallSids :
        LET rows == LogsOf(sid) IN
        \A i, j \in 1..Len(rows) :
            i < j => rows[i].turn_number <= rows[j].turn_number


---------------------------------------------------------------------------
(* C31: every recording callback that carries a call identifier appends    *)
(* exactly one Turn Log entry for that call, on every path of the handler  *)
(* (silence, low confidence, correction, lookup, slot capture, booking,    *)
(* canned reply, completion success and completion failure).               *)
C31_OneLogEntryPerCallback ==
    [][ \A sid \in CallSids :
          RecordingFor(request', sid)
          => Len(SelectSeq(call_logs', LAMBDA row : row.call_sid = sid))
                = Len(LogsOf(sid)) + 1 ]_vars


---------------------------------------------------------------------------
(* C32: when the history load at the start of a Valid turn fails while the *)
(* save at its end succeeds, every entry that earlier turns of the call    *)
(* persisted is still in the stored history after the turn.                *)
C32_FailedLoadKeepsStoredEntries ==
    [][ \A sid \in CallSids :
          ( /\ RecordingFor(request', sid)
            /\ SaidValid(request')
            /\ conversations[sid].exists
            /\ locked["get_history"] # 0
            /\ locked["save_history"] = 0 )
          =>
          \A i \in 1..Len(Messages(sid)) :
              \E j \in 1..Len(conversations'[sid].messages) :
                  conversations'[sid].messages[j] = Messages(sid)[i] ]_vars

=============================================================================
